---- MODULE Spec2Model ----
(***************************************************************************)
(* The network-interface provisioning sample, in its two variants:         *)
(*   "concurrent"  the variant that creates the storage account in a       *)
(*                 goroutine joined by a sync.WaitGroup, and whose         *)
(*                 onErrorFail attempts a resource-group deletion;         *)
(*   "sequential"  example.go: everything in the main flow, onErrorFail    *)
(*                 only exits.                                             *)
(* The remote service is the environment: every call is issued, then       *)
(* returns success or an error; a successful create stores the resource,   *)
(* a successful get returns what is stored plus a server-assigned ID.      *)
(* printNIC only prints; it is not part of the state.                      *)
(***************************************************************************)
EXTENDS Integers, Sequences, FiniteSets, TLC

VARIABLES
    variant,    \* which of the two programs runs
    envSet,     \* the environment variables that are set
    pc,         \* the statement of init()/main() the main flow is at
    st,         \* the position inside the function that statement calls
    i,          \* the loop index of createSubnets / createNICs (0-based)
    spc,        \* the position of createStorageAccount
    wg,         \* the sync.WaitGroup counter
    calls,      \* history: every remote call issued and every return, in order
    flow,       \* history: the statements of init()/main() completed, in order
    reads,      \* how many fmt.Scanln calls have returned
    exited,     \* the process has ended
    status,     \* its exit status
    authFailed, \* a credential-construction step returned an error
    remote,     \* the resources the remote service holds
    subnet,     \* createSubnets' request record, reused across iterations
    subnets,    \* createSubnets' result
    pip1, pip2, \* the two createPIP results
    nic,        \* createNICs' request record, reused across iterations
    nics,       \* createNICs' result (updateNICwithPIP writes into it)
    nirs,       \* buildNIRs' result
    nirIn,      \* SpecNIRs, SpecUpdate: the interface list handed to the function
    nirOut,     \* SpecNIRs: what buildNIRs returned for it
    updName     \* the interface name handed to updateNICwithPIP

vars == <<variant, envSet, pc, st, i, spc, wg, calls, flow, reads, exited,
          status, authFailed, remote, subnet, subnets, pip1, pip2, nic, nics,
          nirs, nirIn, nirOut, updName>>

\* ---------------------------------------------------------------- constants

groupName       == "your-azure-sample-group"
vNetName        == "vNet"
nicNameFrontEnd == "nic1"
nicNameMidTier  == "nic2"
nicNameBackEnd  == "nic3"
accountName     == "golangrocksonazure"
vmName          == "vm"

subnetNames == <<"Front-end", "Mid-tier", "Back-end">>
nicNames    == <<nicNameFrontEnd, nicNameMidTier, nicNameBackEnd>>

EnvVars == {"AZURE_SUBSCRIPTION_ID", "AZURE_TENANT_ID", "AZURE_CLIENT_ID",
            "AZURE_CLIENT_SECRET"}

Variants == {"concurrent", "sequential"}

\* The status of a process whose main returns.
ExitSuccess == 0

\* An error exit that reports success.
ExitFailureLost == ExitSuccess

\* os.Exit(1)
ExitFailure == 1

\* The status of a process that ends in a runtime panic.
ExitPanic == 2

\* A nil pointer is the empty set, a pointer to v is {v}.
Nil == {}
Ptr(v) == {v}

\* ------------------------------------------------------- the statement lists

\* init() and main() of the concurrent variant. utils.GetAuthorizer reads the
\* tenant id, builds the OAuth config, reads the client id and secret and
\* builds the token, exiting on a missing variable and returning the errors.
ProgramConcurrent ==
    << "getEnv.AZURE_TENANT_ID", "OAuthConfig", "getEnv.AZURE_CLIENT_ID",
       "getEnv.AZURE_CLIENT_SECRET", "NewServicePrincipalToken",
       "getEnv.AZURE_SUBSCRIPTION_ID", "createClients",
       "createResourceGroup", "go createStorageAccount",
       "createVirtualNetwork", "createSubnets", "createPIP.pip1",
       "createNICs", "buildNIRs", "wg.Wait", "createVM", "createPIP.pip2",
       "updateNICwithPIP", "listNICs.1", "Scanln.1", "deleteNIC",
       "listNICs.2", "Scanln.2", "deleteResourceGroup", "return" >>

\* init() and main() of example.go.
ProgramSequential ==
    << "getEnv.AZURE_SUBSCRIPTION_ID", "getEnv.AZURE_TENANT_ID",
       "OAuthConfig", "getEnv.AZURE_CLIENT_ID", "getEnv.AZURE_CLIENT_SECRET",
       "NewServicePrincipalToken", "createClients",
       "createResourceGroup", "createVirtualNetwork", "createSubnets",
       "createPIP.pip1", "createNICs", "createStorageAccount", "buildNIRs",
       "createVM", "createPIP.pip2", "updateNICwithPIP", "listNICs.1",
       "Scanln.1", "deleteNIC", "listNICs.2", "Scanln.2",
       "deleteResourceGroup", "return" >>

IndexOf(s, x) == CHOOSE k \in 1..Len(s) : s[k] = x

\* Sequence s with its elements a and b in each other's place.
Swapped(s, a, b) ==
    [k \in 1..Len(s) |-> IF s[k] = a THEN b ELSE IF s[k] = b THEN a ELSE s[k]]

\* main() with the second prompt after the resource-group deletion.
ProgramPromptLate(v) ==
    Swapped(IF v = "concurrent" THEN ProgramConcurrent ELSE ProgramSequential,
            "Scanln.2", "deleteResourceGroup")

\* main() with the second public IP created before the VM.
ProgramPIPBeforeVM(v) ==
    Swapped(IF v = "concurrent" THEN ProgramConcurrent ELSE ProgramSequential,
            "createVM", "createPIP.pip2")

Program(v) == IF v = "concurrent" THEN ProgramConcurrent ELSE ProgramSequential

\* The statement after statement l.
After(l) == Program(variant)[IndexOf(Program(variant), l) + 1]

\* ------------------------------------------------------------------ helpers

Running == ~exited

NoArg == [none |-> TRUE]

Ev(ev, who, site, op, name, arg, ok) ==
    [ev |-> ev, who |-> who, site |-> site, op |-> op, name |-> name,
     arg |-> arg, ok |-> ok]

\* The request of a remote call leaves the program.
Issue(who, site, op, name, arg) ==
    calls' = Append(calls, Ev("issue", who, site, op, name, arg, TRUE))

\* The remote call comes back, with an error or without.
Return(who, site, op, name, ok) ==
    calls' = Append(calls, Ev("return", who, site, op, name, NoArg, ok))

\* A get or list call comes back; without an error it carries what was read.
ReturnValue(who, site, op, name, ok, value) ==
    calls' = Append(calls, Ev("return", who, site, op, name,
                              IF ok THEN [value |-> value] ELSE NoArg, ok))

\* The server-assigned identifier of a stored resource.
ID(kind, name) == <<groupName, kind, name>>

\* The statement at pc is done: on to the next one.
Advance ==
    /\ pc' = After(pc)
    /\ st' = "call1"
    /\ flow' = Append(flow, pc)

NicTemplate ==
    [forwarding |-> Nil,
     ipconf |-> [name |-> Nil, subnet |-> Nil, primary |-> Nil, pip |-> Nil]]

EmptyRemote ==
    [group |-> FALSE, vnet |-> FALSE, subnets |-> {}, pips |-> {},
     nics |-> {}, account |-> FALSE, vm |-> Nil]

\* Everything but the main flow's position and the two histories.
Locals == <<subnet, subnets, pip1, pip2, nic, nics, nirs, i>>
NirVars == <<nirIn, nirOut, updName>>
Fixed == <<variant, envSet>>

\* ------------------------------------------------------ buildNIRs, as a function

\* The first interface of the list marked primary, whatever its name.
buildNIRsFirstPrimary(list) ==
    [k \in 1..Len(list) |-> [id |-> list[k].id, primary |-> (k = 1)]]

\* buildNIRs(nics): one reference per interface, in order; primary is set
\* for the interface named nicNameFrontEnd and cleared for the others.
RECURSIVE buildNIRs(_)
buildNIRs(list) ==
    IF list = <<>> THEN <<>>
    ELSE LET n == Len(list)
             x == list[n]
         IN Append(buildNIRs(SubSeq(list, 1, n - 1)),
                   [id |-> x.id, primary |-> (x.name = nicNameFrontEnd)])

\* --------------------------------------------------------------------- Init

Init ==
    /\ variant \in Variants
    /\ envSet \in SUBSET EnvVars
    /\ pc = Program(variant)[1]
    /\ st = "call1"
    /\ i = 0
    /\ spc = "idle"
    /\ wg = 0
    /\ calls = <<>>
    /\ flow = <<>>
    /\ reads = 0
    /\ exited = FALSE
    /\ status = ExitSuccess
    /\ authFailed = FALSE
    /\ remote = EmptyRemote
    /\ subnet = [prefix |-> Nil]
    /\ subnets = <<>>
    /\ pip1 = Nil
    /\ pip2 = Nil
    /\ nic = NicTemplate
    /\ nics = <<>>
    /\ nirs = <<>>
    /\ nirIn = <<>>
    /\ nirOut = <<>>
    /\ updName = nicNameFrontEnd

\* ------------------------------------------------------------------- init()

EnvOf(l) == CHOOSE v \in EnvVars : l = "getEnv." \o v

IsGetEnv(l) == \E v \in EnvVars : l = "getEnv." \o v

\* getEnvVarOrExit's test: the variable is unset (os.Getenv gives "").
EnvMissing(v) == v \notin envSet

\* getEnvVarOrExit(varName): exit status 1 when the variable is missing.
getEnvVarOrExit ==
    /\ Running /\ IsGetEnv(pc)
    /\ IF EnvMissing(EnvOf(pc))
       THEN /\ exited' = TRUE /\ status' = ExitFailure
            /\ UNCHANGED <<pc, st, flow>>
       ELSE /\ Advance
            /\ UNCHANGED <<exited, status>>
    /\ UNCHANGED <<Fixed, Locals, NirVars, spc, wg, calls, reads, authFailed, remote>>

\* OAuthConfigForTenant / NewServicePrincipalToken, then onErrorFail(err, ...).
Authenticate ==
    /\ Running /\ pc \in {"OAuthConfig", "NewServicePrincipalToken"}
    /\ \E ok \in BOOLEAN :
         IF ok THEN Advance /\ UNCHANGED authFailed
         ELSE /\ pc' = "onErrorFail" /\ authFailed' = TRUE
              /\ UNCHANGED <<st, flow>>
    /\ UNCHANGED <<Fixed, Locals, NirVars, spc, wg, calls, reads, exited, status, remote>>

createClients ==
    /\ Running /\ pc = "createClients"
    /\ Advance
    /\ UNCHANGED <<Fixed, Locals, NirVars, spc, wg, calls, reads, exited, status,
                   authFailed, remote>>

\* ------------------------------------------------------------- onErrorFail

\* The err != nil branch of onErrorFail in the main flow: the concurrent
\* variant starts a resource-group deletion, whose result nobody reads.
onErrorFail ==
    /\ Running /\ pc = "onErrorFail"
    /\ IF variant = "concurrent"
       THEN /\ Issue("main", "onErrorFail", "groupClient.Delete", groupName, NoArg)
            /\ pc' = "os.Exit"
            /\ UNCHANGED <<exited, status>>
       ELSE /\ exited' = TRUE /\ status' = ExitFailure
            /\ UNCHANGED <<pc, calls>>
    /\ UNCHANGED <<Fixed, Locals, NirVars, st, spc, wg, flow, reads, authFailed, remote>>

\* os.Exit(1) at the end of onErrorFail.
osExit ==
    /\ Running /\ pc = "os.Exit"
    /\ exited' = TRUE /\ status' = ExitFailure
    /\ UNCHANGED <<Fixed, Locals, NirVars, pc, st, spc, wg, calls, flow, reads,
                   authFailed, remote>>

\* main returns: the process ends with status 0.
mainReturn ==
    /\ Running /\ pc = "return"
    /\ exited' = TRUE /\ status' = ExitSuccess
    /\ UNCHANGED <<Fixed, Locals, NirVars, pc, st, spc, wg, calls, flow, reads,
                   authFailed, remote>>

\* ------------------------------------------------------------------ main()

\* What every main-flow action below leaves alone unless it says otherwise.
Proc == <<exited, status, authFailed, reads, NirVars, Fixed>>

createResourceGroup ==
    /\ Running /\ pc = "createResourceGroup"
    /\ \/ /\ st = "call1"
          /\ Issue("main", "createResourceGroup", "groupClient.CreateOrUpdate", groupName, NoArg)
          /\ st' = "wait1"
          /\ UNCHANGED <<pc, flow, remote>>
       \/ /\ st = "wait1"
          /\ \E ok \in BOOLEAN :
               /\ Return("main", "createResourceGroup", "groupClient.CreateOrUpdate", groupName, ok)
               /\ IF ok THEN Advance /\ remote' = [remote EXCEPT !.group = TRUE]
                  ELSE pc' = "onErrorFail" /\ UNCHANGED <<st, flow, remote>>
    /\ UNCHANGED <<Proc, Locals, spc, wg>>

\* wg.Add(1); go createStorageAccount(&wg)
goCreateStorageAccount ==
    /\ Running /\ pc = "go createStorageAccount"
    /\ wg' = wg + 1
    /\ spc' = "call1"
    /\ Advance
    /\ UNCHANGED <<Proc, Locals, calls, remote>>

createVirtualNetwork ==
    /\ Running /\ pc = "createVirtualNetwork"
    /\ \/ /\ st = "call1"
          /\ Issue("main", "createVirtualNetwork", "vNetClient.CreateOrUpdate", vNetName,
                   [addressSpace |-> <<172, 16, 0, 0, 16>>])
          /\ st' = "wait1"
          /\ UNCHANGED <<pc, flow, remote>>
       \/ /\ st = "wait1"
          /\ \E ok \in BOOLEAN :
               /\ Return("main", "createVirtualNetwork", "vNetClient.CreateOrUpdate", vNetName, ok)
               /\ IF ok THEN Advance /\ remote' = [remote EXCEPT !.vnet = TRUE]
                  ELSE pc' = "onErrorFail" /\ UNCHANGED <<st, flow, remote>>
    /\ UNCHANGED <<Proc, Locals, spc, wg>>

\* The prefix numbered by the loop index itself.
AddressPrefixFromZero(idx) == <<172, 16, idx, 0, 24>>

\* fmt.Sprintf("172.16.%v.0/24", i+1), i the 0-based loop index.
AddressPrefix(idx) == <<172, 16, idx + 1, 0, 24>>

\* The stored resource of that name.
Stored(set, name) == CHOOSE r \in set : r.name = name

\* The store with the resource of that name created or replaced.
Put(set, r) == {x \in set : x.name # r.name} \cup {r}

\* The loop of createSubnets and createNICs: next iteration, or out of the loop.
LoopNext(n) ==
    IF i + 1 < n THEN /\ i' = i + 1 /\ st' = "call1" /\ UNCHANGED <<pc, flow>>
    ELSE /\ i' = 0 /\ Advance

createSubnets ==
    /\ Running /\ pc = "createSubnets"
    /\ LET n == subnetNames[i + 1] IN
       \/ /\ st = "call1"
          /\ subnet' = [subnet EXCEPT !.prefix = Ptr(AddressPrefix(i))]
          /\ Issue("main", "createSubnets", "subnetClient.CreateOrUpdate", n, subnet')
          /\ st' = "wait1"
          /\ UNCHANGED <<pc, flow, remote, subnets, i>>
       \/ /\ st = "wait1"
          /\ \E ok \in BOOLEAN :
               /\ Return("main", "createSubnets", "subnetClient.CreateOrUpdate", n, ok)
               /\ IF ok
                  THEN /\ st' = "call2"
                       /\ remote' = [remote EXCEPT !.subnets =
                              Put(@, [name |-> n, id |-> ID("subnet", n),
                                      prefix |-> subnet.prefix])]
                       /\ UNCHANGED pc
                  ELSE pc' = "onErrorFail" /\ UNCHANGED <<st, remote>>
          /\ UNCHANGED <<flow, subnet, subnets, i>>
       \/ /\ st = "call2"
          /\ Issue("main", "createSubnets", "subnetClient.Get", n, NoArg)
          /\ st' = "wait2"
          /\ UNCHANGED <<pc, flow, remote, subnet, subnets, i>>
       \/ /\ st = "wait2"
          /\ \E ok \in BOOLEAN :
               /\ ReturnValue("main", "createSubnets", "subnetClient.Get", n, ok, Stored(remote.subnets, n))
               /\ IF ok
                  THEN /\ subnets' = Append(subnets, Stored(remote.subnets, n))
                       /\ LoopNext(Len(subnetNames))
                  ELSE pc' = "onErrorFail" /\ UNCHANGED <<st, flow, subnets, i>>
          /\ UNCHANGED <<remote, subnet>>
    /\ UNCHANGED <<Proc, pip1, pip2, nic, nics, nirs, spc, wg>>

\* createPIP(pipName); `which` is the statement of main that calls it.
createPIP(pipName, which) ==
    /\ Running /\ pc = which
    /\ \/ /\ st = "call1"
          /\ Issue("main", "createPIP", "addressClient.CreateOrUpdate", pipName,
                   [dns |-> <<"azuresample-", pipName>>])
          /\ st' = "wait1"
          /\ UNCHANGED <<pc, flow, remote, pip1, pip2>>
       \/ /\ st = "wait1"
          /\ \E ok \in BOOLEAN :
               /\ Return("main", "createPIP", "addressClient.CreateOrUpdate", pipName, ok)
               /\ IF ok
                  THEN /\ st' = "call2"
                       /\ remote' = [remote EXCEPT !.pips =
                              Put(@, [name |-> pipName, id |-> ID("pip", pipName),
                                      dns |-> <<"azuresample-", pipName>>])]
                       /\ UNCHANGED pc
                  ELSE pc' = "onErrorFail" /\ UNCHANGED <<st, remote>>
          /\ UNCHANGED <<flow, pip1, pip2>>
       \/ /\ st = "call2"
          /\ Issue("main", "createPIP", "addressClient.Get", pipName, NoArg)
          /\ st' = "wait2"
          /\ UNCHANGED <<pc, flow, remote, pip1, pip2>>
       \/ /\ st = "wait2"
          /\ \E ok \in BOOLEAN :
               /\ ReturnValue("main", "createPIP", "addressClient.Get", pipName, ok,
                              Stored(remote.pips, pipName))
               /\ IF ok
                  THEN /\ IF which = "createPIP.pip1"
                          THEN pip1' = Ptr(Stored(remote.pips, pipName)) /\ UNCHANGED pip2
                          ELSE pip2' = Ptr(Stored(remote.pips, pipName)) /\ UNCHANGED pip1
                       /\ Advance
                  ELSE pc' = "onErrorFail" /\ UNCHANGED <<st, flow, pip1, pip2>>
          /\ UNCHANGED remote
    /\ UNCHANGED <<Proc, subnet, subnets, nic, nics, nirs, i, spc, wg>>

\* The loop body without its else branch: the record keeps what the
\* front-end iteration wrote into it.
NicRequestNoReset(r, idx, n, sn, pip) ==
    LET named == [r EXCEPT !.ipconf.name = Ptr(<<"IPconfig", idx + 1>>),
                           !.ipconf.subnet = Ptr(sn[idx + 1])]
    IN IF n = nicNameFrontEnd
       THEN [named EXCEPT !.forwarding = Ptr(TRUE),
                          !.ipconf.primary = Ptr(TRUE),
                          !.ipconf.pip = pip]
       ELSE named

\* The body of createNICs' loop up to the create call: what iteration idx,
\* for interface name n, writes into the one request record r.
NicRequest(r, idx, n, sn, pip) ==
    LET named == [r EXCEPT !.ipconf.name = Ptr(<<"IPconfig", idx + 1>>),
                           !.ipconf.subnet = Ptr(sn[idx + 1])]
    IN IF n = nicNameFrontEnd
       THEN [named EXCEPT !.forwarding = Ptr(TRUE),
                          !.ipconf.primary = Ptr(TRUE),
                          !.ipconf.pip = pip]
       ELSE [named EXCEPT !.forwarding = Nil,
                          !.ipconf.primary = Nil,
                          !.ipconf.pip = Nil]

\* What the service stores for an interface created under `name` with request r.
NicResource(name, r) ==
    [name |-> name, id |-> ID("nic", name), forwarding |-> r.forwarding,
     ipconf |-> r.ipconf]

createNICs ==
    /\ Running /\ pc = "createNICs"
    /\ LET n == nicNames[i + 1] IN
       \/ /\ st = "call1"
          /\ nic' = NicRequest(nic, i, n, subnets, pip1)
          /\ Issue("main", "createNICs", "interfacesClient.CreateOrUpdate", n, nic')
          /\ st' = "wait1"
          /\ UNCHANGED <<pc, flow, remote, nics, i>>
       \/ /\ st = "wait1"
          /\ \E ok \in BOOLEAN :
               /\ Return("main", "createNICs", "interfacesClient.CreateOrUpdate", n, ok)
               /\ IF ok
                  THEN /\ st' = "call2"
                       /\ remote' = [remote EXCEPT !.nics = Put(@, NicResource(n, nic))]
                       /\ UNCHANGED pc
                  ELSE pc' = "onErrorFail" /\ UNCHANGED <<st, remote>>
          /\ UNCHANGED <<flow, nic, nics, i>>
       \/ /\ st = "call2"
          /\ Issue("main", "createNICs", "interfacesClient.Get", n, NoArg)
          /\ st' = "wait2"
          /\ UNCHANGED <<pc, flow, remote, nic, nics, i>>
       \/ /\ st = "wait2"
          /\ \E ok \in BOOLEAN :
               /\ ReturnValue("main", "createNICs", "interfacesClient.Get", n, ok, Stored(remote.nics, n))
               /\ IF ok
                  THEN /\ nics' = Append(nics, Stored(remote.nics, n))
                       /\ LoopNext(Len(nicNames))
                  ELSE pc' = "onErrorFail" /\ UNCHANGED <<st, flow, nics, i>>
          /\ UNCHANGED <<remote, nic>>
    /\ UNCHANGED <<Proc, subnet, subnets, pip1, pip2, nirs, spc, wg>>

\* ---------------------------------------------------- createStorageAccount

\* Who runs createStorageAccount: its own goroutine, or the main flow.
StorageWho == IF variant = "concurrent" THEN "storage" ELSE "main"

\* example.go calls createStorageAccount() from main and waits for it to return.
callCreateStorageAccount ==
    /\ Running /\ pc = "createStorageAccount"
    /\ \/ /\ st = "call1" /\ spc = "idle"
          /\ spc' = "call1" /\ st' = "wait1"
          /\ UNCHANGED <<pc, flow>>
       \/ /\ st = "wait1" /\ spc = "end"
          /\ Advance
          /\ UNCHANGED spc
    /\ UNCHANGED <<Proc, Locals, wg, calls, remote>>

\* createStorageAccount up to and including onErrorFail(<-errChan, ...):
\* the error branch is taken by whoever runs the function.
createStorageAccount ==
    /\ Running
    /\ \/ /\ spc = "call1"
          /\ Issue(StorageWho, "createStorageAccount", "accountClient.Create", accountName, NoArg)
          /\ spc' = "wait1"
          /\ UNCHANGED <<pc, remote>>
       \/ /\ spc = "wait1"
          /\ \E ok \in BOOLEAN :
               /\ Return(StorageWho, "createStorageAccount", "accountClient.Create", accountName, ok)
               /\ IF ok
                  THEN /\ spc' = IF variant = "concurrent" THEN "wg.Done" ELSE "end"
                       /\ remote' = [remote EXCEPT !.account = TRUE]
                       /\ UNCHANGED pc
                  ELSE /\ IF variant = "concurrent"
                          THEN spc' = "onErrorFail" /\ UNCHANGED pc
                          ELSE pc' = "onErrorFail" /\ spc' = "failed"
                       /\ UNCHANGED remote
    /\ UNCHANGED <<Proc, Locals, st, flow, wg>>

\* wg.Done(), the last statement of the goroutine.
wgDone ==
    /\ Running /\ spc = "wg.Done"
    /\ wg' = wg - 1
    /\ spc' = "end"
    /\ UNCHANGED <<Proc, Locals, pc, st, flow, calls, remote>>

\* The err != nil branch of onErrorFail, run by the goroutine.
storageOnErrorFail ==
    /\ Running /\ spc = "onErrorFail"
    /\ Issue("storage", "onErrorFail", "groupClient.Delete", groupName, NoArg)
    /\ spc' = "os.Exit"
    /\ UNCHANGED <<Proc, Locals, pc, st, flow, wg, remote>>

\* os.Exit(1), run by the goroutine: the whole process ends.
storageOsExit ==
    /\ Running /\ spc = "os.Exit"
    /\ exited' = TRUE /\ status' = ExitFailure
    /\ UNCHANGED <<Fixed, Locals, NirVars, pc, st, spc, wg, calls, flow, reads,
                   authFailed, remote>>

\* ------------------------------------------------------- main(), continued

\* nirs := buildNIRs(nics)
callBuildNIRs ==
    /\ Running /\ pc = "buildNIRs"
    /\ nirs' = buildNIRs(nics)
    /\ Advance
    /\ UNCHANGED <<Proc, subnet, subnets, pip1, pip2, nic, nics, i, spc, wg, calls, remote>>

\* A wait that never blocks.
WaitGroupOpenNoBarrier == TRUE

\* A wait on a counter that never comes back to zero.
WaitGroupNeverOpen == FALSE

\* wg.Wait() returns when the counter is zero.
WaitGroupOpen == wg = 0

wgWait ==
    /\ Running /\ pc = "wg.Wait"
    /\ WaitGroupOpen
    /\ Advance
    /\ UNCHANGED <<Proc, Locals, spc, wg, calls, remote>>

createVM ==
    /\ Running /\ pc = "createVM"
    /\ \/ /\ st = "call1"
          /\ Issue("main", "createVM", "vmClient.CreateOrUpdate", vmName,
                   [nirs |-> nirs, vhd |-> <<accountName, vmName>>])
          /\ st' = "wait1"
          /\ UNCHANGED <<pc, flow, remote>>
       \/ /\ st = "wait1"
          /\ \E ok \in BOOLEAN :
               /\ Return("main", "createVM", "vmClient.CreateOrUpdate", vmName, ok)
               /\ IF ok THEN Advance /\ remote' = [remote EXCEPT !.vm = Ptr(nirs)]
                  ELSE pc' = "onErrorFail" /\ UNCHANGED <<st, flow, remote>>
    /\ UNCHANGED <<Proc, Locals, spc, wg>>

\* The scan left out: index keeps its zero value.
FindIndexNoScan(nicName, list) == 0

\* The two assignments made to a copy of the element.
WithPIPOnCopy(nicName, list, pip) == list

\* updateNICwithPIP's scan: the 0-based index of the last interface of that
\* name, and 0 (the zero value of `var index int`) when there is none.
FindIndex(nicName, list) ==
    LET hits == {k \in 1..Len(list) : list[k].name = nicName}
    IN IF hits = {} THEN 0
       ELSE (CHOOSE k \in hits : \A m \in hits : m <= k) - 1

\* The list after updateNICwithPIP's two assignments.
WithPIP(nicName, list, pip) ==
    [list EXCEPT ![FindIndex(nicName, list) + 1].ipconf.pip = pip,
                 ![FindIndex(nicName, list) + 1].ipconf.primary = Ptr(TRUE)]

updateNICwithPIP(nicName) ==
    /\ Running /\ pc = "updateNICwithPIP"
    /\ IF nics = <<>>
       THEN \* nics[index] on an empty slice: index out of range, a panic
            /\ exited' = TRUE /\ status' = ExitPanic
            /\ UNCHANGED <<pc, st, flow, calls, remote, nics, authFailed, reads,
                           NirVars, Fixed>>
       ELSE /\ \/ /\ st = "call1"
                  /\ nics' = WithPIP(nicName, nics, pip2)
                  /\ Issue("main", "updateNICwithPIP", "interfacesClient.CreateOrUpdate",
                           nicName, nics'[FindIndex(nicName, nics) + 1])
                  /\ st' = "wait1"
                  /\ UNCHANGED <<pc, flow, remote>>
               \/ /\ st = "wait1"
                  /\ \E ok \in BOOLEAN :
                       /\ Return("main", "updateNICwithPIP",
                                 "interfacesClient.CreateOrUpdate", nicName, ok)
                       /\ IF ok
                          THEN /\ Advance
                               /\ remote' = [remote EXCEPT !.nics =
                                      Put(@, NicResource(nicName,
                                                         nics[FindIndex(nicName, nics) + 1]))]
                          ELSE pc' = "onErrorFail" /\ UNCHANGED <<st, flow, remote>>
                  /\ UNCHANGED nics
            /\ UNCHANGED Proc
    /\ UNCHANGED <<subnet, subnets, pip1, pip2, nic, nirs, i, spc, wg>>

\* listNICs(); `which` is the statement of main that calls it. The listing
\* that comes back is what the service holds.
listNICs(which) ==
    /\ Running /\ pc = which
    /\ \/ /\ st = "call1"
          /\ Issue("main", "listNICs", "interfacesClient.List", groupName, NoArg)
          /\ st' = "wait1"
          /\ UNCHANGED <<pc, flow>>
       \/ /\ st = "wait1"
          /\ \E ok \in BOOLEAN :
               /\ ReturnValue("main", "listNICs", "interfacesClient.List", groupName, ok,
                              remote.nics)
               /\ IF ok THEN Advance
                  ELSE pc' = "onErrorFail" /\ UNCHANGED <<st, flow>>
    /\ UNCHANGED <<Proc, Locals, spc, wg, remote>>

\* fmt.Scanln(&input): blocks until a line of input arrives.
Scanln(which) ==
    /\ Running /\ pc = which
    /\ reads' = reads + 1
    /\ Advance
    /\ UNCHANGED <<exited, status, authFailed, NirVars, Fixed, Locals, spc, wg, calls, remote>>

\* The two deletes the other way round.
DeleteNICCallSwapped(k, nicName) ==
    IF k = 2 THEN [op |-> "vmClient.Delete", name |-> vmName]
    ELSE [op |-> "interfacesClient.Delete", name |-> nicName]

\* deleteNIC's two remote calls, in the order it makes them.
DeleteNICCall(k, nicName) ==
    IF k = 1 THEN [op |-> "vmClient.Delete", name |-> vmName]
    ELSE [op |-> "interfacesClient.Delete", name |-> nicName]

\* What a successful delete removes from the service.
Deleted(c) ==
    IF c.op = "vmClient.Delete" THEN [remote EXCEPT !.vm = Nil]
    ELSE [remote EXCEPT !.nics = {x \in @ : x.name # c.name}]

deleteNIC(nicName) ==
    /\ Running /\ pc = "deleteNIC"
    /\ LET c1 == DeleteNICCall(1, nicName)
           c2 == DeleteNICCall(2, nicName)
       IN
       \/ /\ st = "call1"
          /\ Issue("main", "deleteNIC", c1.op, c1.name, NoArg)
          /\ st' = "wait1"
          /\ UNCHANGED <<pc, flow, remote>>
       \/ /\ st = "wait1"
          /\ \E ok \in BOOLEAN :
               /\ Return("main", "deleteNIC", c1.op, c1.name, ok)
               /\ IF ok
                  THEN /\ st' = "call2"
                       /\ remote' = Deleted(c1)
                       /\ UNCHANGED pc
                  ELSE pc' = "onErrorFail" /\ UNCHANGED <<st, remote>>
          /\ UNCHANGED flow
       \/ /\ st = "call2"
          /\ Issue("main", "deleteNIC", c2.op, c2.name, NoArg)
          /\ st' = "wait2"
          /\ UNCHANGED <<pc, flow, remote>>
       \/ /\ st = "wait2"
          /\ \E ok \in BOOLEAN :
               /\ Return("main", "deleteNIC", c2.op, c2.name, ok)
               /\ IF ok
                  THEN /\ Advance
                       /\ remote' = Deleted(c2)
                  ELSE pc' = "onErrorFail" /\ UNCHANGED <<st, flow, remote>>
    /\ UNCHANGED <<Proc, Locals, spc, wg>>

deleteResourceGroup ==
    /\ Running /\ pc = "deleteResourceGroup"
    /\ \/ /\ st = "call1"
          /\ Issue("main", "deleteResourceGroup", "groupClient.Delete", groupName, NoArg)
          /\ st' = "wait1"
          /\ UNCHANGED <<pc, flow, remote>>
       \/ /\ st = "wait1"
          /\ \E ok \in BOOLEAN :
               /\ Return("main", "deleteResourceGroup", "groupClient.Delete", groupName, ok)
               /\ IF ok THEN Advance /\ remote' = EmptyRemote
                  ELSE pc' = "onErrorFail" /\ UNCHANGED <<st, flow, remote>>
    /\ UNCHANGED <<Proc, Locals, spc, wg>>

\* --------------------------------------------------------- the specification

Next ==
    \/ getEnvVarOrExit
    \/ Authenticate
    \/ createClients
    \/ createResourceGroup
    \/ goCreateStorageAccount
    \/ createVirtualNetwork
    \/ createSubnets
    \/ createPIP("pip1", "createPIP.pip1")
    \/ createNICs
    \/ callCreateStorageAccount
    \/ createStorageAccount
    \/ wgDone
    \/ storageOnErrorFail
    \/ storageOsExit
    \/ callBuildNIRs
    \/ wgWait
    \/ createVM
    \/ createPIP("pip2", "createPIP.pip2")
    \/ updateNICwithPIP(nicNameFrontEnd)
    \/ listNICs("listNICs.1")
    \/ Scanln("Scanln.1")
    \/ deleteNIC(nicNameMidTier)
    \/ listNICs("listNICs.2")
    \/ Scanln("Scanln.2")
    \/ deleteResourceGroup
    \/ onErrorFail
    \/ osExit
    \/ mainReturn

Spec == Init /\ [][Next]_vars

\* Both goroutines keep being scheduled, every remote call returns and both
\* prompts receive a line: some enabled step is eventually taken.
FairSpec == Spec /\ WF_vars(Next)

\* ------------------------------------------- buildNIRs on arbitrary lists

\* The longest interface list handed to buildNIRs.
MaxNics == 3

\* Interfaces as interfacesClient.Get returns them: the three the program
\* creates and one more, under any name but the front-end one.
NicInputs ==
    {[name |-> n, id |-> ID("nic", n)] : n \in {nicNameFrontEnd, nicNameMidTier,
                                                nicNameBackEnd, "nic4"}}

SeqsUpTo(S, n) == UNION {[1..k -> S] : k \in 0..n}

InitNIRs ==
    /\ variant = "concurrent"
    /\ envSet = EnvVars
    /\ pc = "buildNIRs.call"
    /\ st = "call1"
    /\ i = 0
    /\ spc = "idle"
    /\ wg = 0
    /\ calls = <<>>
    /\ flow = <<>>
    /\ reads = 0
    /\ exited = FALSE
    /\ status = ExitSuccess
    /\ authFailed = FALSE
    /\ remote = EmptyRemote
    /\ subnet = [prefix |-> Nil]
    /\ subnets = <<>>
    /\ pip1 = Nil
    /\ pip2 = Nil
    /\ nic = NicTemplate
    /\ nics = <<>>
    /\ nirs = <<>>
    /\ nirIn \in SeqsUpTo(NicInputs, MaxNics)
    /\ nirOut = <<>>
    /\ updName = nicNameFrontEnd

applyBuildNIRs ==
    /\ pc = "buildNIRs.call"
    /\ nirOut' = buildNIRs(nirIn)
    /\ pc' = "buildNIRs.done"
    /\ UNCHANGED <<variant, envSet, st, i, spc, wg, calls, flow, reads, exited,
                   status, authFailed, remote, subnet, subnets, pip1, pip2, nic,
                   nics, nirs, nirIn, updName>>

NextNIRs == applyBuildNIRs

SpecNIRs == InitNIRs /\ [][NextNIRs]_vars

\* ------------------------------------ updateNICwithPIP on arbitrary inputs

\* The longest interface list handed to updateNICwithPIP.
MaxUpdNics == 3

\* A public IP address as addressClient.Get returns it.
PipResource(name) ==
    [name |-> name, id |-> ID("pip", name), dns |-> <<"azuresample-", name>>]

\* The interfaces as createNICs leaves them in the service, with the first
\* public IP given as `pip`.
CreatedNic(k, pip) ==
    NicResource(nicNames[k],
                NicRequest(NicTemplate, k - 1, nicNames[k],
                           [j \in 1..3 |-> [name |-> subnetNames[j],
                                            id |-> ID("subnet", subnetNames[j]),
                                            prefix |-> Ptr(AddressPrefix(j - 1))]],
                           pip))

UpdInputs == {CreatedNic(k, Ptr(PipResource("pip1"))) : k \in 1..3}

\* updateNICwithPIP is about to run on a list of interfaces, a name (one of
\* the three, or one no interface has) and a public IP address.
InitUpdate ==
    /\ variant \in Variants
    /\ envSet = EnvVars
    /\ pc = "updateNICwithPIP"
    /\ st = "call1"
    /\ i = 0
    /\ spc = "idle"
    /\ wg = 0
    /\ calls = <<>>
    /\ flow = <<>>
    /\ reads = 0
    /\ exited = FALSE
    /\ status = ExitSuccess
    /\ authFailed = FALSE
    /\ remote = EmptyRemote
    /\ subnet = [prefix |-> Nil]
    /\ subnets = <<>>
    /\ pip1 = Ptr(PipResource("pip1"))
    /\ pip2 \in {Ptr(PipResource("pip1")), Ptr(PipResource("pip2"))}
    /\ nic = NicTemplate
    /\ nics \in SeqsUpTo(UpdInputs, MaxUpdNics)
    /\ nirs = <<>>
    /\ nirIn = nics
    /\ nirOut = <<>>
    /\ updName \in {nicNameFrontEnd, nicNameMidTier, nicNameBackEnd, "nic4"}

NextUpdate ==
    \/ updateNICwithPIP(updName)
    \/ onErrorFail
    \/ osExit

SpecUpdate == InitUpdate /\ [][NextUpdate]_vars

\* ------------------------------------------------------- reading the history

IsIssue(k, op) == calls[k].ev = "issue" /\ calls[k].op = op
IsReturn(k, op) == calls[k].ev = "return" /\ calls[k].op = op
Failed(k) == calls[k].ev = "return" /\ ~calls[k].ok
Calls == 1..Len(calls)
AnyFailure == \E k \in Calls : Failed(k)

\* The events of the history that satisfy Test, in order.
Events(Test(_)) == SelectSeq(calls, Test)

\* ------------------------------------------------------------------ claims

\* C1: the VM create call is never issued before the storage-account create
\* call has returned successfully, in every interleaving of the two paths.
C1_VMAfterStorage ==
    \A k \in Calls :
        IsIssue(k, "vmClient.CreateOrUpdate") =>
            \E j \in 1..(k - 1) : IsReturn(j, "accountClient.Create") /\ calls[j].ok

\* C1 witness: the goroutine's create call returned while the main flow was
\* already at the join, and the VM create call was issued right after it.
C1_Witness ==
    /\ variant = "concurrent"
    /\ \E k \in Calls :
         /\ k > 1
         /\ IsIssue(k, "vmClient.CreateOrUpdate")
         /\ IsReturn(k - 1, "accountClient.Create")
         /\ calls[k - 1].who = "storage"

\* The resource-group deletions that onErrorFail started.
CleanupDeletes == {k \in Calls : calls[k].ev = "issue" /\ calls[k].site = "onErrorFail"}

\* C2: once a remote call has returned an error, the process ends with a
\* non-zero status and no path issues a further remote call, except one
\* resource-group deletion attempt in total in the variant whose onErrorFail
\* cleans up.
C2_FailFast ==
    /\ (exited /\ AnyFailure) => status # 0
    /\ \A j \in Calls : \A k \in Calls :
         (j < k /\ Failed(j) /\ calls[k].ev = "issue") =>
             (variant = "concurrent" /\ calls[k].site = "onErrorFail")
    /\ Cardinality(CleanupDeletes) <= 1

\* C3: with a required environment variable absent, the process ends with a
\* non-zero status during initialization and no remote call is issued, not
\* even a resource-group deletion attempt.
C3_NoCallWithoutEnv ==
    envSet # EnvVars =>
        /\ calls = <<>>
        /\ exited => status # 0
        /\ \A k \in 1..Len(flow) : flow[k] # "createClients"

\* C4: an interface delete call is issued only after a VM delete call has
\* returned successfully, and never once a VM delete call has failed.
C4_VMDeleteFirst ==
    /\ \A k \in Calls :
         IsIssue(k, "interfacesClient.Delete") =>
             \E j \in 1..(k - 1) : IsReturn(j, "vmClient.Delete") /\ calls[j].ok
    /\ (\E j \in Calls : IsReturn(j, "vmClient.Delete") /\ ~calls[j].ok) =>
           ~\E k \in Calls : IsIssue(k, "interfacesClient.Delete")

\* C4 witness: the delete call for the mid-tier interface has been issued.
C4_Witness ==
    \E k \in Calls :
        IsIssue(k, "interfacesClient.Delete") /\ calls[k].name = nicNameMidTier

IsSubnetCreate(e) == e.ev = "issue" /\ e.op = "subnetClient.CreateOrUpdate"
IsSubnetGet(e) == e.ev = "return" /\ e.op = "subnetClient.Get" /\ e.ok
SubnetCreates == Events(IsSubnetCreate)
SubnetGets == Events(IsSubnetGet)

ExpectedSubnets ==
    << [name |-> "Front-end", prefix |-> <<172, 16, 1, 0, 24>>],
       [name |-> "Mid-tier",  prefix |-> <<172, 16, 2, 0, 24>>],
       [name |-> "Back-end",  prefix |-> <<172, 16, 3, 0, 24>>] >>

\* C5: the subnet create calls are issued for Front-end, Mid-tier, Back-end in
\* that order with prefixes 172.16.1.0/24, 172.16.2.0/24, 172.16.3.0/24, and
\* the list createSubnets builds holds the re-fetched subnets in that order.
C5_SubnetOrder ==
    /\ Len(SubnetCreates) <= 3
    /\ \A k \in 1..Len(SubnetCreates) :
         /\ SubnetCreates[k].name = ExpectedSubnets[k].name
         /\ SubnetCreates[k].arg.prefix = {ExpectedSubnets[k].prefix}
    /\ Len(subnets) = Len(SubnetGets)
    /\ \A k \in 1..Len(subnets) :
         /\ subnets[k] = SubnetGets[k].arg.value
         /\ subnets[k].name = ExpectedSubnets[k].name
         /\ subnets[k].prefix = {ExpectedSubnets[k].prefix}
    /\ (\E k \in 1..Len(flow) : flow[k] = "createSubnets") =>
           Len(SubnetCreates) = 3 /\ Len(subnets) = 3

\* C5 witness: createSubnets has returned its list of three.
C5_Witness ==
    /\ \E k \in 1..Len(flow) : flow[k] = "createSubnets"
    /\ Len(subnets) = 3

IsNicCreate(e) ==
    e.ev = "issue" /\ e.op = "interfacesClient.CreateOrUpdate" /\ e.site = "createNICs"
NicCreates == Events(IsNicCreate)

\* The create call carries IP forwarding, the primary flag and the public IP.
CarriesFrontEndSettings(e) ==
    /\ e.arg.forwarding = {TRUE}
    /\ e.arg.ipconf.primary = {TRUE}
    /\ e.arg.ipconf.pip # {} /\ e.arg.ipconf.pip = pip1
    /\ \A x \in e.arg.ipconf.pip : x.name = "pip1"

\* The create call carries none of the three.
CarriesNone(e) ==
    /\ e.arg.forwarding = {}
    /\ e.arg.ipconf.primary = {}
    /\ e.arg.ipconf.pip = {}

\* C6: of the interface create calls createNICs issues, the one for nic1
\* carries IP forwarding, the primary flag and the public IP, the ones for
\* nic2 and nic3 carry none of them, and call i is bound to subnet i.
C6_OnlyFrontEnd ==
    /\ Len(NicCreates) <= 3
    /\ \A k \in 1..Len(NicCreates) :
         LET e == NicCreates[k] IN
         /\ e.name = <<"nic1", "nic2", "nic3">>[k]
         /\ e.arg.ipconf.subnet = {subnets[k]}
         /\ IF k = 1 THEN CarriesFrontEndSettings(e) ELSE CarriesNone(e)
    /\ Cardinality({k \in 1..Len(NicCreates) :
                       NicCreates[k].arg.forwarding # {}
                       \/ NicCreates[k].arg.ipconf.primary # {}
                       \/ NicCreates[k].arg.ipconf.pip # {}}) <= 1

\* C6 witness: all three interface create calls have been issued.
C6_Witness == Len(NicCreates) = 3

\* The list is the three created interfaces, in some order.
IsOrderingOfCreated(list) ==
    /\ Len(list) = 3
    /\ {list[k] : k \in 1..3} =
           {[name |-> n, id |-> ID("nic", n)] : n \in {"nic1", "nic2", "nic3"}}

\* C7: for every ordering of the three created interfaces, buildNIRs returns
\* one reference per interface in input order, exactly one of them primary,
\* and that one carries the ID of the front-end interface.
C7_OnePrimary ==
    (pc = "buildNIRs.done" /\ IsOrderingOfCreated(nirIn)) =>
        /\ Len(nirOut) = 3
        /\ \A k \in 1..3 : nirOut[k].id = nirIn[k].id
        /\ Cardinality({k \in 1..3 : nirOut[k].primary}) = 1
        /\ \A k \in 1..3 : nirOut[k].primary <=> nirOut[k].id = ID("nic", "nic1")

\* C7 witness: buildNIRs has run on an ordering with the front-end interface last.
C7_Witness ==
    /\ pc = "buildNIRs.done"
    /\ IsOrderingOfCreated(nirIn)
    /\ nirIn[3].name = "nic1"

C9_PromptsGateDeletes ==
    /\ (\E k \in Calls : IsIssue(k, "vmClient.Delete")
                         \/ IsIssue(k, "interfacesClient.Delete")) => reads >= 1
    /\ (\E k \in Calls : IsIssue(k, "groupClient.Delete")) => reads >= 2

\* C9 amended: as stated, except for the resource-group deletion attempt that
\* onErrorFail of the concurrent variant issues once a call or a credential
\* step has failed; that one waits for no prompt.
C9_PromptsGateDeletesAmended ==
    /\ (\E k \in Calls : IsIssue(k, "vmClient.Delete")
                         \/ IsIssue(k, "interfacesClient.Delete")) => reads >= 1
    /\ \A k \in Calls :
         IsIssue(k, "groupClient.Delete") =>
             \/ calls[k].site = "deleteResourceGroup" /\ reads >= 2
             \/ /\ calls[k].site = "onErrorFail"
                /\ variant = "concurrent"
                /\ authFailed \/ \E j \in 1..(k - 1) : Failed(j)

\* C9 witness: deleteResourceGroup issued its call, after both prompts.
C9_Witness ==
    \E k \in Calls :
        /\ IsIssue(k, "groupClient.Delete")
        /\ calls[k].site = "deleteResourceGroup"
        /\ reads = 2

InitStatements ==
    {"getEnv.AZURE_SUBSCRIPTION_ID", "getEnv.AZURE_TENANT_ID", "getEnv.AZURE_CLIENT_ID",
     "getEnv.AZURE_CLIENT_SECRET", "OAuthConfig", "NewServicePrincipalToken",
     "createClients"}

IsMainStep(l) == l \notin InitStatements /\ l # "go createStorageAccount"

\* The join with storage-account creation: wg.Wait() where it runs as a
\* goroutine, the return of the synchronous call where it does not.
StepName(l) == IF l \in {"wg.Wait", "createStorageAccount"} THEN "join" ELSE l

\* The steps of main() completed so far, in order.
MainSteps ==
    LET ms == SelectSeq(flow, IsMainStep)
    IN [k \in 1..Len(ms) |-> StepName(ms[k])]

IsPrefix(s, t) == Len(s) <= Len(t) /\ \A k \in 1..Len(s) : s[k] = t[k]

ErrorFree == envSet = EnvVars /\ ~authFailed /\ ~AnyFailure

\* The remote calls of an error-free run begin with the resource-group
\* creation and end with deleteResourceGroup's call; the storage-account
\* create call is issued after the former returned and returns before the VM
\* create call is issued.
CallsBracketed ==
    /\ calls # <<>> => IsIssue(1, "groupClient.CreateOrUpdate")
    /\ \A k \in Calls :
         /\ IsIssue(k, "accountClient.Create") =>
                k > 2 /\ IsReturn(2, "groupClient.CreateOrUpdate")
         /\ IsIssue(k, "vmClient.CreateOrUpdate") =>
                \E j \in 1..(k - 1) : IsReturn(j, "accountClient.Create")
         /\ IsIssue(k, "groupClient.Delete") =>
                calls[k].site = "deleteResourceGroup" /\ k >= Len(calls) - 1
    /\ exited => calls # <<>> /\ IsReturn(Len(calls), "groupClient.Delete")

FlowAsStated ==
    << "createResourceGroup", "createVirtualNetwork", "createSubnets",
       "createPIP.pip1", "createNICs", "join", "buildNIRs", "createVM",
       "createPIP.pip2", "updateNICwithPIP", "listNICs.1", "Scanln.1",
       "deleteNIC", "listNICs.2", "Scanln.2", "deleteResourceGroup" >>

\* In the concurrent variant the references are built before the join.
FlowAmended ==
    IF variant = "concurrent" THEN Swapped(FlowAsStated, "join", "buildNIRs")
    ELSE FlowAsStated

\* C10 as stated: in an error-free run the steps of main occur in the order
\* of the Flow, with the join before BuildInterfaceReferences.
C10_FlowOrder ==
    ErrorFree =>
        /\ IsPrefix(MainSteps, FlowAsStated)
        /\ (exited /\ status = 0) => MainSteps = FlowAsStated
        /\ CallsBracketed

\* C10 amended: the same order, except that where the storage account is
\* created by a goroutine BuildInterfaceReferences comes before the join
\* (both still before CreateVM).
C10_FlowOrderAmended ==
    ErrorFree =>
        /\ IsPrefix(MainSteps, FlowAmended)
        /\ (exited /\ status = 0) => MainSteps = FlowAmended
        /\ CallsBracketed

\* C10 witness: an error-free run of the concurrent variant has ended, and the
\* storage-account create call returned only after the last interface was
\* fetched.
C10_Witness ==
    /\ exited /\ status = 0 /\ variant = "concurrent" /\ ErrorFree
    /\ \E k \in Calls :
         /\ IsReturn(k, "accountClient.Create")
         /\ \E j \in 1..(k - 1) :
              IsReturn(j, "interfacesClient.Get") /\ calls[j].name = nicNameBackEnd

\* The kind of resource a client's calls address.
KindOf(op) ==
    CASE op \in {"groupClient.CreateOrUpdate", "groupClient.Delete"} -> "group"
      [] op = "vNetClient.CreateOrUpdate" -> "vnet"
      [] op \in {"subnetClient.CreateOrUpdate", "subnetClient.Get"} -> "subnet"
      [] op \in {"addressClient.CreateOrUpdate", "addressClient.Get"} -> "pip"
      [] op \in {"interfacesClient.CreateOrUpdate", "interfacesClient.Get",
                 "interfacesClient.List", "interfacesClient.Delete"} -> "nic"
      [] op = "accountClient.Create" -> "account"
      [] op \in {"vmClient.CreateOrUpdate", "vmClient.Delete"} -> "vm"

\* The call creates, updates or deletes a resource.
IsMutation(e) ==
    /\ e.ev = "issue"
    /\ e.op \notin {"subnetClient.Get", "addressClient.Get", "interfacesClient.Get",
                    "interfacesClient.List"}

\* The paths that have issued a mutating call for the resource.
Mutators(kind, name) ==
    {calls[k].who : k \in {j \in Calls : /\ IsMutation(calls[j])
                                         /\ KindOf(calls[j].op) = kind
                                         /\ calls[j].name = name}}

\* C11: every remote resource receives its create, update and delete calls
\* from at most one of the two paths, in every interleaving, failures included.
C11_SinglePath ==
    \A k \in Calls :
        IsMutation(calls[k]) =>
            Cardinality(Mutators(KindOf(calls[k].op), calls[k].name)) <= 1

\* The 1-based position updateNICwithPIP is to write to: that of the
\* interface of the given name, the first position when there is none.
IsTarget(t) ==
    IF \E k \in 1..Len(nirIn) : nirIn[k].name = updName
    THEN nirIn[t].name = updName
    ELSE t = 1

IsListing(e) == e.ev = "return" /\ e.op = "interfacesClient.List" /\ e.ok
Listings == Events(IsListing)
NamesIn(set) == {x.name : x \in set}

\* The front-end interface of the listing carries the second public IP.
FrontEndHasPip2(set) ==
    \A x \in set :
        x.name = "nic1" =>
            /\ x.ipconf.pip # {}
            /\ \A a \in x.ipconf.pip : a.name = "pip2"

\* C13: with a service that stores resources as created, the first listing
\* shows exactly nic1, nic2, nic3 and the second exactly nic1, nic3; the only
\* interface delete call is for nic2; and in both listings nic1 carries pip2.
C13_Listings ==
    /\ Len(Listings) <= 2
    /\ Len(Listings) >= 1 =>
         /\ NamesIn(Listings[1].arg.value) = {"nic1", "nic2", "nic3"}
         /\ FrontEndHasPip2(Listings[1].arg.value)
    /\ Len(Listings) = 2 =>
         /\ NamesIn(Listings[2].arg.value) = {"nic1", "nic3"}
         /\ FrontEndHasPip2(Listings[2].arg.value)
    /\ \A k \in Calls : IsIssue(k, "interfacesClient.Delete") => calls[k].name = "nic2"
    /\ (exited /\ status = 0) => Len(Listings) = 2

\* C13 witness: an error-free run has ended with both listings made.
C13_Witness ==
    /\ exited /\ status = 0 /\ ErrorFree
    /\ Len(Listings) = 2
    /\ \E k \in Calls : IsIssue(k, "interfacesClient.Delete")

\* C14: the main flow does not stay at wg.Wait() for ever: from there it
\* either goes on to createVM, the goroutine having called wg.Done(), or the
\* process exits with status 1 because the storage-account creation failed.
C14_JoinEnds ==
    (pc = "wg.Wait" /\ ~exited) ~>
        \/ pc = "createVM" /\ spc = "end" /\ wg = 0
        \/ /\ exited /\ status = 1
           /\ \E k \in Calls : IsReturn(k, "accountClient.Create") /\ ~calls[k].ok

\* C14 witness: the main flow is at the join while the storage-account create
\* call is still out.
C14_Witness ==
    /\ pc = "wg.Wait" /\ ~exited
    /\ wg = 1 /\ spc = "wait1"

====
